---- MODULE Spec2Model ----
(***************************************************************************)
(* Model of services/render_service.py (eJesus): the Ken Burns video       *)
(* renderer render_kenburns_video, its duration planner, the per-clip      *)
(* encoders, concat, mux and the publish of the final file, and the        *)
(* zoompan expressions of _zoompan_expr evaluated frame by frame.          *)
(*                                                                         *)
(* Time.  Python computes the plan in floats; the model computes it in     *)
(* exact rationals.  Every duration of one run is an integer number of     *)
(* ticks, TicksPerMs(nimg) ticks to the millisecond: with 5*max(1,N)       *)
(* ticks per millisecond, total_sec*0.20 and remaining/len(images) are     *)
(* exact for every audio length in whole milliseconds (len(audio)) and     *)
(* every intro length in whole seconds.                                    *)
(***************************************************************************)
EXTENDS Integers, Sequences, FiniteSets

VARIABLES
    audio_ms,       \* len(audio): the narration's length in milliseconds
    intro_cfg,      \* the intro_seconds argument, in seconds
    nimg,           \* number of images the caller supplied
    dest0,          \* what out_mp4 held when the run began
    pc,             \* position of render_kenburns_video
    total_sec,      \* ticks
    intro_seconds,  \* ticks
    images,         \* the images list (image numbers; title_bg_png is 0)
    remaining,      \* ticks
    ideal,          \* ticks
    t_accum,        \* ticks
    i,              \* loop counter of the planning loop
    slide_plan,     \* sequence of [img, secs] (secs in ticks)
    idx,            \* enumerate index of the clip loop (1-based)
    clips,          \* the clips list: sequence of clip records
    running,        \* external processes (subprocess.run) in progress
    started,        \* external-effect steps begun, in order
    completed,      \* external-effect steps finished successfully, in order
    concat_list,    \* lines of cache/concat_list.txt
    video_frames,   \* frames of cache/video_concat.mp4
    tmp_final,      \* cache/final_mux.mp4: "absent", "partial" or "complete"
    final_dur,      \* duration of the muxed file, in 1/3000 s
    dest,           \* out_mp4: "absent", "old" or "new"
    failed_at,      \* the step whose error reached the caller, or "none"
    kb,             \* one slide clip's zoompan evaluation (frame by frame)
    resolution,     \* the resolution argument: a string, as a sequence of characters
    out_wh          \* what _parse_resolution returned: <<W, H>>, or <<>> before the call

planvars == <<total_sec, intro_seconds, images, remaining, ideal, t_accum, i, slide_plan>>
inputvars == <<audio_ms, intro_cfg, nimg, dest0>>
clipvars == <<idx, clips, running, started, completed, concat_list, video_frames>>
outvars == <<tmp_final, final_dur, dest, failed_at>>
parsevars == <<resolution, out_wh>>
vars == <<inputvars, pc, planvars, clipvars, outvars, kb, parsevars>>

----------------------------------------------------------------------------
(* Bounds of the model and the inputs drawn from them *)

MaxImages == 6
MaxAudioSec == 20
MaxFrames == 7
MaxDim == 8
MaxMode == 12
MaxStrLen == 4

\* Narration lengths: a one-second grid, plus lengths off the grid (below one
\* second, half seconds, one millisecond past a frame boundary, long ones).
AudioChoices ==
    {1000 * s : s \in 0..MaxAudioSec}
        \cup {400, 2100, 2500, 12001, 16500, 30000, 32200, 39000, 40000, 80000}

\* Configured intro lengths in seconds (5 is the function's default, 8 main's).
IntroChoices == {0, 5, 8, 10}

\* Characters of the resolution strings that are drawn: digits, the delimiter,
\* a wrong delimiter, whitespace, a letter.
ParseAlphabet == {"0", "1", "9", "x", "X", " ", "a"}

\* All strings over ParseAlphabet of at most MaxStrLen characters
ResolutionChoices ==
    UNION {[1..n -> ParseAlphabet] : n \in 0..MaxStrLen}

\* KB_ZOOM in hundredths (1.25 is the default).
ZoomChoices == {100, 125, 400}

----------------------------------------------------------------------------
(* Arithmetic helpers *)

Max(a, b) == IF a >= b THEN a ELSE b

Min(a, b) == IF a <= b THEN a ELSE b

TicksPerMs(n) == 5 * Max(1, n)

Ms(n, ms) == ms * TicksPerMs(n)

\* round() to the nearest integer of num/den, halves away from zero (num >= 0)
RoundDiv(num, den) == (2 * num + den) \div (2 * den)

RECURSIVE SumSecs(_)
SumSecs(plan) ==
    IF plan = <<>> THEN 0 ELSE plan[1].secs + SumSecs(Tail(plan))

RECURSIVE SumFrames(_)
SumFrames(cs) ==
    IF cs = <<>> THEN 0 ELSE cs[1].frames + SumFrames(Tail(cs))

Front(s) == SubSeq(s, 1, Len(s) - 1)

----------------------------------------------------------------------------
(* _parse_resolution, lines 18-22 *)

\* resolution: str = "1920x1080"
DefaultResolution == <<"1", "9", "2", "0", "x", "1", "0", "8", "0">>

\* the characters \d matches
Digits == {"0", "1", "2", "3", "4", "5", "6", "7", "8", "9"}

\* the characters str.strip() removes
Whitespace == {" "}

DigitVal(c) ==
    CASE c = "0" -> 0 [] c = "1" -> 1 [] c = "2" -> 2 [] c = "3" -> 3
      [] c = "4" -> 4 [] c = "5" -> 5 [] c = "6" -> 6 [] c = "7" -> 7
      [] c = "8" -> 8 [] c = "9" -> 9

RECURSIVE LStrip(_)
LStrip(s) ==
    IF s # <<>> /\ s[1] \in Whitespace THEN LStrip(Tail(s)) ELSE s

RECURSIVE RStrip(_)
RStrip(s) ==
    IF s # <<>> /\ s[Len(s)] \in Whitespace THEN RStrip(SubSeq(s, 1, Len(s) - 1)) ELSE s

\* Mutant of Strip: the string is matched as it was passed
StripNothing(s) == s

\* res_str.strip()
Strip(s) == RStrip(LStrip(s))

\* \d+ from position p: the position after the longest run of digits
RECURSIVE DigitRun(_, _)
DigitRun(s, p) ==
    IF p <= Len(s) /\ s[p] \in Digits THEN DigitRun(s, p + 1) ELSE p

\* re.match(r"^(\d+)x(\d+)$", s): the two groups, or <<>> for None
ReMatch(s) ==
    LET a == DigitRun(s, 1)
        b == DigitRun(s, a + 1)
    IN  IF a > 1 /\ a <= Len(s) /\ s[a] = "x" /\ b > a + 1 /\ b = Len(s) + 1
        THEN <<SubSeq(s, 1, a - 1), SubSeq(s, a + 1, Len(s))>>
        ELSE <<>>

\* int(group)
RECURSIVE IntOf(_)
IntOf(ds) ==
    IF ds = <<>> THEN 0 ELSE IntOf(SubSeq(ds, 1, Len(ds) - 1)) * 10 + DigitVal(ds[Len(ds)])

\* _parse_resolution(res_str)
ParseResolution(res_str) ==
    LET m == ReMatch(Strip(res_str))
    IN  IF m = <<>> THEN <<1920, 1080>> ELSE <<IntOf(m[1]), IntOf(m[2])>>

----------------------------------------------------------------------------
(* Program constants of render_service.py *)

title_bg_png == 0
min_per_slide == 4
max_per_slide == 12
FPS == 30
NumModes == 5
GuardMargin == 3
GuardMinIntro == 2000
GuardDivisor == 5
MinRemainingMs == 100
PlanEpsMs == 250
TailFloorMs == 1000
MinTotalMs == 1000

----------------------------------------------------------------------------
(* The duration planner, lines 279-316 *)

\* total_sec = max(1.0, len(audio) / 1000.0)
TotalSec(n, ms) == Max(Ms(n, MinTotalMs), Ms(n, ms))

\* Mutant of Guardrail: the 3 s margin is forgotten in the comparison
GuardrailNoMargin(n, total, intro) ==
    IF total < intro
    THEN Max(Ms(n, GuardMinIntro), total \div GuardDivisor)
    ELSE intro

\* if total_sec < intro_seconds + 3: intro_seconds = max(2.0, total_sec * 0.20)
Guardrail(n, total, intro) ==
    IF total < intro + Ms(n, GuardMargin * 1000)
    THEN Max(Ms(n, GuardMinIntro), total \div GuardDivisor)
    ELSE intro

\* if not images: images = [title_bg_png]
ImagesOrTitle(imgs) == IF imgs = <<>> THEN <<title_bg_png>> ELSE imgs

\* remaining = max(0.1, total_sec - intro_seconds)
Remaining(n, total, intro) == Max(Ms(n, MinRemainingMs), total - intro)

\* Mutant of Ideal: the min_per_slide floor is left out
IdealNoFloor(n, rem, imgs) ==
    Min(Ms(n, max_per_slide * 1000), rem \div Max(1, Len(imgs)))

\* Mutant of Ideal: the clamp to [min_per_slide, max_per_slide] is left out
IdealUnclamped(n, rem, imgs) == rem \div Max(1, Len(imgs))

\* ideal = max(min_per_slide, min(max_per_slide, remaining / max(1, len(images))))
Ideal(n, rem, imgs) ==
    Max(Ms(n, min_per_slide * 1000),
        Min(Ms(n, max_per_slide * 1000), rem \div Max(1, Len(imgs))))

\* Mutant of LoopCond: the next slide's duration is left out of the test
LoopCondOvershoot(n, acc, d, rem) == acc < rem - Ms(n, PlanEpsMs)

\* while t_accum + ideal < remaining - 0.25
LoopCond(n, acc, d, rem) == acc + d < rem - Ms(n, PlanEpsMs)

\* Mutant of PickImage: past the end of the list the last image is repeated
PickImageNoCycle(imgs, k) == imgs[Min(k, Len(imgs) - 1) + 1]

\* images[i % len(images)]
PickImage(imgs, k) == imgs[(k % Len(imgs)) + 1]

\* tail = max(1.0, remaining - t_accum)
TailSecs(n, rem, acc) == Max(Ms(n, TailFloorMs), rem - acc)

----------------------------------------------------------------------------
(* Clip builders and ffmpeg helpers, lines 100-257 *)

\* f"{seconds:.3f}": the -t argument, in whole milliseconds (an exact half
\* millisecond, which a binary float cannot hold, is rounded up)
FormatMs(n, secs) == RoundDiv(secs, TicksPerMs(n))

\* Frames of a clip encoded with -r 30 -t <ms>: ffmpeg writes every frame whose
\* timestamp k/30 lies before the -t limit.
EncodedFrames(ms) == (ms * FPS + 999) \div 1000

\* frames = max(1, int(seconds * 30))
KbFrames(n, secs) == Max(1, (secs * FPS) \div Ms(n, 1000))

\* _zoompan_expr(frames, mode % 5)
SlideMode(mode) == mode % NumModes

\* Mutant of PlanMode: the 1-based enumerate index is used as it is
PlanModeOneBased(k) == k % NumModes

\* mode = (idx - 1) % 5
PlanMode(k) == (k - 1) % NumModes

\* Mutant of AppendClip: the new clip is put in front of the list
PrependClip(cs, c) == <<c>> \o cs

\* clips.append(...)
AppendClip(cs, c) == Append(cs, c)

\* Mutant of AfterFailure: the error is logged but not re-raised
AfterFailureSwallowed(next) == next

\* _run: a nonzero exit is logged and re-raised; the caller's next statement
\* (at position next) is not reached
AfterFailure(next) == "raised"

\* _concat_clips writes one "file '<clip>'" line per clip, in list order
ConcatLines(cs) == [k \in 1..Len(cs) |-> cs[k].name]

\* -shortest: the muxed file ends with its shorter stream (units of 1/3000 s)
MuxDuration(vframes, ams) == Min(vframes * (3000 \div FPS), ams * 3)

Ev(s, k) == [step |-> s, k |-> k]

IntroClip(n, secs) ==
    [name |-> 0, img |-> title_bg_png, ms |-> FormatMs(n, secs),
     frames |-> EncodedFrames(FormatMs(n, secs)), kbframes |-> 0, mode |-> 0]

SlideClip(n, k, entry, mode) ==
    [name |-> k, img |-> entry.img, ms |-> FormatMs(n, entry.secs),
     frames |-> EncodedFrames(FormatMs(n, entry.secs)),
     kbframes |-> KbFrames(n, entry.secs), mode |-> SlideMode(mode)]

----------------------------------------------------------------------------
(* The zoompan expressions of _zoompan_expr, lines 130-182 *)

\* frames_m1 = max(1, frames - 1)
FramesM1(frames) == Max(1, frames - 1)

\* floor(max(iw-(ow/zoom),0)), zoom in hundredths
SpanSafe(iw, ow, zoom) ==
    IF iw * zoom >= ow * 100 THEN (iw * zoom - ow * 100) \div zoom ELSE 0

\* round(span/2)
Mid(span) == RoundDiv(span, 2)

\* Mutant of Lerp: the frame counter is taken to start at 1
LerpOneBased(a, b, on, fm1) == RoundDiv(a * (fm1 - (on + 1)) + b * (on + 1), fm1)

\* round((a)*(1-t)+(b)*t) with t = on/frames_m1
Lerp(a, b, on, fm1) == RoundDiv(a * (fm1 - on) + b * on, fm1)

KbX(mode, xspan, on, fm1) ==
    IF mode \in {0, 1, 2} THEN Lerp(0, xspan, on, fm1) ELSE Lerp(xspan, 0, on, fm1)

\* Mutant of KbY: the up-right and down-right diagonals are exchanged
KbYSwapped(mode, yspan, on, fm1) ==
    CASE mode = 0 -> Mid(yspan)
      [] mode = 1 -> Lerp(0, yspan, on, fm1)
      [] mode = 2 -> Lerp(yspan, 0, on, fm1)
      [] mode = 3 -> Lerp(yspan, 0, on, fm1)
      [] OTHER -> Lerp(0, yspan, on, fm1)

KbY(mode, yspan, on, fm1) ==
    CASE mode = 0 -> Mid(yspan)
      [] mode = 1 -> Lerp(yspan, 0, on, fm1)
      [] mode = 2 -> Lerp(0, yspan, on, fm1)
      [] mode = 3 -> Lerp(yspan, 0, on, fm1)
      [] OTHER -> Lerp(0, yspan, on, fm1)

KbIdle ==
    [frames |-> 0, mode |-> 0, zoom |-> 0, xspan |-> 0, yspan |-> 0,
     on |-> 0, x |-> 0, y |-> 0, z |-> 0]

KbAt(frames, mode, zoom, xspan, yspan, on) ==
    [frames |-> frames, mode |-> mode, zoom |-> zoom, xspan |-> xspan,
     yspan |-> yspan, on |-> on,
     x |-> KbX(mode, xspan, on, FramesM1(frames)),
     y |-> KbY(mode, yspan, on, FramesM1(frames)),
     z |-> zoom]

----------------------------------------------------------------------------
(* render_kenburns_video, lines 261-349 *)

PlanIdle ==
    /\ total_sec = 0 /\ intro_seconds = 0 /\ images = <<>> /\ remaining = 0
    /\ ideal = 0 /\ t_accum = 0 /\ i = 0 /\ slide_plan = <<>>

ClipsIdle ==
    /\ idx = 0 /\ clips = <<>> /\ running = {} /\ started = <<>>
    /\ completed = <<>> /\ concat_list = <<>> /\ video_frames = 0

OutIdle ==
    /\ tmp_final = "absent" /\ final_dur = 0 /\ dest = dest0 /\ failed_at = "none"

Init ==
    /\ audio_ms \in AudioChoices
    /\ intro_cfg \in IntroChoices
    /\ nimg \in 0..MaxImages
    /\ dest0 \in {"absent", "old"}
    /\ pc = "start"
    /\ PlanIdle /\ ClipsIdle /\ OutIdle
    /\ kb = KbIdle
    /\ resolution = DefaultResolution
    /\ out_wh = <<>>

\* lines 278-283: parse the resolution, decode the audio, take its length
LoadAudio ==
    /\ pc = "start"
    /\ out_wh' = ParseResolution(resolution)
    /\ total_sec' = TotalSec(nimg, audio_ms)
    /\ intro_seconds' = Ms(nimg, intro_cfg * 1000)
    /\ images' = [k \in 1..nimg |-> k]
    /\ pc' = "title"
    /\ UNCHANGED <<resolution, inputvars, remaining, ideal, t_accum, i, slide_plan, clipvars, outvars, kb>>

\* lines 285-287: make_title_card
MakeTitleCard ==
    /\ pc = "title"
    /\ started' = Append(started, Ev("title", 0))
    /\ completed' = Append(completed, Ev("title", 0))
    /\ pc' = "guard"
    /\ UNCHANGED <<parsevars, inputvars, planvars, idx, clips, running, concat_list, video_frames, outvars, kb>>

\* lines 289-291
ApplyGuardrail ==
    /\ pc = "guard"
    /\ intro_seconds' = Guardrail(nimg, total_sec, intro_seconds)
    /\ pc' = "fallback"
    /\ UNCHANGED <<parsevars, inputvars, total_sec, images, remaining, ideal, t_accum, i, slide_plan, clipvars, outvars, kb>>

\* lines 293-308
PlanBudget ==
    /\ pc = "fallback"
    /\ images' = ImagesOrTitle(images)
    /\ remaining' = Remaining(nimg, total_sec, intro_seconds)
    /\ ideal' = Ideal(nimg, remaining', images')
    /\ slide_plan' = <<>>
    /\ t_accum' = 0
    /\ i' = 0
    /\ pc' = "plan"
    /\ UNCHANGED <<parsevars, inputvars, total_sec, intro_seconds, clipvars, outvars, kb>>

\* lines 309-313: one iteration of the planning loop
PlanLoop ==
    /\ pc = "plan"
    /\ LoopCond(nimg, t_accum, ideal, remaining)
    /\ slide_plan' = Append(slide_plan, [img |-> PickImage(images, i), secs |-> ideal])
    /\ t_accum' = t_accum + ideal
    /\ i' = i + 1
    /\ UNCHANGED <<parsevars, inputvars, pc, total_sec, intro_seconds, images, remaining, ideal, clipvars, outvars, kb>>

\* lines 314-319: the loop exits, the tail entry is appended
PlanTail ==
    /\ pc = "plan"
    /\ ~LoopCond(nimg, t_accum, ideal, remaining)
    /\ slide_plan' = Append(slide_plan,
          [img |-> PickImage(images, i), secs |-> TailSecs(nimg, remaining, t_accum)])
    /\ clips' = <<>>
    /\ pc' = "intro"
    /\ UNCHANGED <<parsevars, inputvars, total_sec, intro_seconds, images, remaining, ideal, t_accum, i,
                   idx, running, started, completed, concat_list, video_frames, outvars, kb>>

\* line 321: _make_intro_still_clip starts ffmpeg and blocks
IntroStart ==
    /\ pc = "intro"
    /\ running' = running \cup {Ev("intro", 0)}
    /\ started' = Append(started, Ev("intro", 0))
    /\ pc' = "intro_run"
    /\ UNCHANGED <<parsevars, inputvars, planvars, idx, clips, completed, concat_list, video_frames, outvars, kb>>

\* lines 322-324: ffmpeg exited 0; the clip is appended, the clip loop begins
IntroOk ==
    /\ pc = "intro_run"
    /\ running' = running \ {Ev("intro", 0)}
    /\ completed' = Append(completed, Ev("intro", 0))
    /\ clips' = AppendClip(clips, IntroClip(nimg, intro_seconds))
    /\ idx' = 1
    /\ pc' = "slides"
    /\ UNCHANGED <<parsevars, inputvars, planvars, started, concat_list, video_frames, outvars, kb>>

\* lines 324-327: _make_slide_clip starts ffmpeg for plan entry idx and blocks
SlideStart ==
    /\ pc = "slides"
    /\ idx <= Len(slide_plan)
    /\ running' = running \cup {Ev("slide", idx)}
    /\ started' = Append(started, Ev("slide", idx))
    /\ pc' = "slide_run"
    /\ UNCHANGED <<parsevars, inputvars, planvars, idx, clips, completed, concat_list, video_frames, outvars, kb>>

\* line 328: ffmpeg exited 0; the clip is appended, the loop advances
SlideOk ==
    /\ pc = "slide_run"
    /\ running' = running \ {Ev("slide", idx)}
    /\ completed' = Append(completed, Ev("slide", idx))
    /\ clips' = AppendClip(clips, SlideClip(nimg, idx, slide_plan[idx], PlanMode(idx)))
    /\ idx' = idx + 1
    /\ pc' = "slides"
    /\ UNCHANGED <<parsevars, inputvars, planvars, started, concat_list, video_frames, outvars, kb>>

\* lines 330-332, 228-241: the clip loop is over; _concat_clips writes the
\* list file and starts ffmpeg
ConcatStart ==
    /\ pc = "slides"
    /\ idx > Len(slide_plan)
    /\ concat_list' = ConcatLines(clips)
    /\ running' = running \cup {Ev("concat", 0)}
    /\ started' = Append(started, Ev("concat", 0))
    /\ pc' = "concat_run"
    /\ UNCHANGED <<parsevars, inputvars, planvars, idx, clips, completed, video_frames, outvars, kb>>

ConcatOk ==
    /\ pc = "concat_run"
    /\ running' = running \ {Ev("concat", 0)}
    /\ completed' = Append(completed, Ev("concat", 0))
    /\ video_frames' = SumFrames(clips)
    /\ pc' = "mux"
    /\ UNCHANGED <<parsevars, inputvars, planvars, idx, clips, started, concat_list, outvars, kb>>

\* lines 334-336, 243-257: _mux_audio starts ffmpeg writing cache/final_mux.mp4
MuxStart ==
    /\ pc = "mux"
    /\ running' = running \cup {Ev("mux", 0)}
    /\ started' = Append(started, Ev("mux", 0))
    /\ tmp_final' = "partial"
    /\ pc' = "mux_run"
    /\ UNCHANGED <<parsevars, inputvars, planvars, idx, clips, completed, concat_list, video_frames,
                   final_dur, dest, failed_at, kb>>

MuxOk ==
    /\ pc = "mux_run"
    /\ running' = running \ {Ev("mux", 0)}
    /\ completed' = Append(completed, Ev("mux", 0))
    /\ tmp_final' = "complete"
    /\ final_dur' = MuxDuration(video_frames, audio_ms)
    /\ pc' = "publish"
    /\ UNCHANGED <<parsevars, inputvars, planvars, idx, clips, started, concat_list, video_frames,
                   dest, failed_at, kb>>

\* lines 100-106: the running ffmpeg exits nonzero; _run logs stderr and raises
ProcFail ==
    /\ pc \in {"intro_run", "slide_run", "concat_run", "mux_run"}
    /\ \E p \in running :
          /\ running' = running \ {p}
          /\ failed_at' = p.step
    /\ pc' = AfterFailure(CASE pc = "intro_run" -> "slides"
                            [] pc = "slide_run" -> "slides"
                            [] pc = "concat_run" -> "mux"
                            [] OTHER -> "publish")
    /\ UNCHANGED <<parsevars, inputvars, planvars, idx, clips, started, completed, concat_list,
                   video_frames, tmp_final, final_dur, dest, kb>>

\* lines 339-342: tmp_final and out_mp4 are different paths; an existing
\* out_mp4 is removed first (os.remove may raise)
PublishRemove ==
    /\ pc = "publish"
    /\ dest # "absent"
    /\ started' = Append(started, Ev("publish", 0))
    /\ \/ /\ dest' = "absent"
          /\ pc' = "replace"
          /\ UNCHANGED failed_at
       \/ /\ failed_at' = "remove"
          /\ pc' = "raised"
          /\ UNCHANGED dest
    /\ UNCHANGED <<parsevars, inputvars, planvars, idx, clips, running, completed, concat_list,
                   video_frames, tmp_final, final_dur, kb>>

\* line 341: nothing exists at out_mp4
PublishNoRemove ==
    /\ pc = "publish"
    /\ dest = "absent"
    /\ started' = Append(started, Ev("publish", 0))
    /\ pc' = "replace"
    /\ UNCHANGED <<parsevars, inputvars, planvars, idx, clips, running, completed, concat_list,
                   video_frames, outvars, kb>>

\* lines 343-349: os.replace(tmp_final, out_mp4), atomic; it may raise
PublishReplace ==
    /\ pc = "replace"
    /\ \/ /\ dest' = "new"
          /\ tmp_final' = "absent"
          /\ completed' = Append(completed, Ev("publish", 0))
          /\ pc' = "done"
          /\ UNCHANGED failed_at
       \/ /\ failed_at' = "replace"
          /\ pc' = "raised"
          /\ UNCHANGED <<dest, tmp_final, completed>>
    /\ UNCHANGED <<parsevars, inputvars, planvars, idx, clips, running, started, concat_list,
                   video_frames, final_dur, kb>>

Next ==
    \/ LoadAudio \/ MakeTitleCard \/ ApplyGuardrail \/ PlanBudget
    \/ PlanLoop \/ PlanTail
    \/ IntroStart \/ IntroOk \/ SlideStart \/ SlideOk
    \/ ConcatStart \/ ConcatOk \/ MuxStart \/ MuxOk \/ ProcFail
    \/ PublishRemove \/ PublishNoRemove \/ PublishReplace

Spec == Init /\ [][Next]_vars

\* The planning loop is straight-line Python: once it is reached, its next
\* iteration or its exit is taken.
SpecPlanFair == Spec /\ WF_vars(PlanLoop) /\ WF_vars(PlanTail)

----------------------------------------------------------------------------
(* One slide clip's zoompan, evaluated frame by frame: the inputs of        *)
(* _zoompan_expr and of the filter it is used in are drawn from bounded     *)
(* sets, the renderer itself stands still.                                  *)

InitPan ==
    /\ audio_ms = 0 /\ intro_cfg = 0 /\ nimg = 0 /\ dest0 = "absent"
    /\ pc = "zoompan"
    /\ PlanIdle /\ ClipsIdle /\ OutIdle
    /\ resolution = DefaultResolution
    /\ out_wh = <<>>
    /\ \E frames \in 1..MaxFrames, mode \in 0..MaxMode, zoom \in ZoomChoices,
          w \in 1..MaxDim, h \in {1, 3, MaxDim} :
          kb = KbAt(frames, SlideMode(mode), zoom,
                    SpanSafe(w, w, zoom), SpanSafe(h, h, zoom), 0)

\* zoompan emits the next output frame (d=1: one output frame per input frame)
PanFrame ==
    /\ pc = "zoompan"
    /\ kb.on < kb.frames - 1
    /\ kb' = KbAt(kb.frames, kb.mode, kb.zoom, kb.xspan, kb.yspan, kb.on + 1)
    /\ UNCHANGED <<parsevars, inputvars, pc, planvars, clipvars, outvars>>

NextPan == PanFrame

SpecPan == InitPan /\ [][NextPan]_vars

----------------------------------------------------------------------------
(* _parse_resolution on its own: the string is drawn from ResolutionChoices, *)
(* the renderer itself stands still.                                        *)

InitParse ==
    /\ audio_ms = 0 /\ intro_cfg = 0 /\ nimg = 0 /\ dest0 = "absent"
    /\ pc = "parse"
    /\ PlanIdle /\ ClipsIdle /\ OutIdle
    /\ kb = KbIdle
    /\ resolution \in ResolutionChoices
    /\ out_wh = <<>>

\* lines 18-22: the call returns
ParseCall ==
    /\ pc = "parse"
    /\ out_wh' = ParseResolution(resolution)
    /\ pc' = "parsed"
    /\ UNCHANGED <<resolution, inputvars, planvars, clipvars, outvars, kb>>

NextParse == ParseCall

SpecParse == InitParse /\ [][NextParse]_vars

----------------------------------------------------------------------------
(* Properties *)

Abs(a) == IF a >= 0 THEN a ELSE -a

IsPrefix(s, t) == Len(s) <= Len(t) /\ s = SubSeq(t, 1, Len(s))

\* the guardrail has been applied
GuardDone == pc \notin {"start", "title", "guard", "zoompan", "parse", "parsed"}

\* the slide plan is complete (tail included)
PlanDone ==
    pc \notin {"start", "title", "guard", "fallback", "plan", "zoompan", "parse", "parsed"}

\* the slide clips among the clips built so far (clips[1] is the intro)
Rendered == IF clips = <<>> THEN <<>> ELSE Tail(clips)

ExpectedOrder(nslides) ==
    <<Ev("title", 0), Ev("intro", 0)>>
        \o [k \in 1..nslides |-> Ev("slide", k)]
        \o <<Ev("concat", 0), Ev("mux", 0), Ev("publish", 0)>>

\* C1: for every narration length T > 0, image count N >= 0 and configured
\* intro I0, the intro duration (after the guardrail) plus the durations of all
\* plan entries, tail included, is within 0.25 s of T.
C1_SumWithinEps ==
    (PlanDone /\ audio_ms > 0) =>
        Abs(intro_seconds + SumSecs(slide_plan) - total_sec) <= Ms(nimg, 250)

\* C2: with an empty image list the plan has exactly one entry, that entry
\* shows the title card, and its duration is R = max(0.1, T - I).
C2_EmptyListSingleSlide ==
    (PlanDone /\ nimg = 0 /\ audio_ms > 0) =>
        /\ Len(slide_plan) = 1
        /\ slide_plan[1].img = title_bg_png
        /\ slide_plan[1].secs = Max(Ms(nimg, 100), total_sec - intro_seconds)

\* C3: the effective intro is max(2.0, 0.20*T) when T < I0 + 3 and I0
\* otherwise; T = 10, I0 = 8 gives 2.0 and T = 30, I0 = 8 gives 8.  It holds
\* with T read as total_sec and, for a narration longer than 0, with T read as
\* the audio's own length.
C3_Guardrail ==
    GuardDone =>
        /\ intro_seconds =
              IF total_sec < Ms(nimg, intro_cfg * 1000 + 3000)
              THEN Max(Ms(nimg, 2000), total_sec \div 5)
              ELSE Ms(nimg, intro_cfg * 1000)
        /\ audio_ms > 0 =>
              intro_seconds =
                 IF audio_ms < intro_cfg * 1000 + 3000
                 THEN Max(Ms(nimg, 2000), Ms(nimg, audio_ms) \div 5)
                 ELSE Ms(nimg, intro_cfg * 1000)
        /\ (audio_ms = 10000 /\ intro_cfg = 8) => intro_seconds = Ms(nimg, 2000)
        /\ (audio_ms = 30000 /\ intro_cfg = 8) => intro_seconds = Ms(nimg, 8000)

\* C3 witness: the guardrail fired for T = 10 s, I0 = 8 s and set the intro to 2.0 s
C3_Witness ==
    /\ GuardDone
    /\ audio_ms = 10000 /\ intro_cfg = 8
    /\ intro_seconds = Ms(nimg, 2000)

\* C4: every plan entry but the last has the same duration
\* D = clamp(R / max(1, N), 4, 12), so 4 <= D <= 12, and the last entry lasts
\* max(1.0, R - accumulated) >= 1.0 s.
C4_PlanDurations ==
    PlanDone =>
        LET R == Max(Ms(nimg, 100), total_sec - intro_seconds)
            D == Max(Ms(nimg, 4000), Min(Ms(nimg, 12000), R \div Max(1, nimg)))
            last == slide_plan[Len(slide_plan)]
        IN  /\ Len(slide_plan) >= 1
            /\ \A k \in 1..(Len(slide_plan) - 1) :
                  /\ slide_plan[k].secs = D
                  /\ Ms(nimg, 4000) <= slide_plan[k].secs
                  /\ slide_plan[k].secs <= Ms(nimg, 12000)
            /\ last.secs = Max(Ms(nimg, 1000), R - SumSecs(Front(slide_plan)))
            /\ last.secs >= Ms(nimg, 1000)

\* C4 witness: a plan of several entries whose tail was lifted to the 1.0 s floor
C4_Witness ==
    /\ PlanDone
    /\ Len(slide_plan) >= 3
    /\ slide_plan[Len(slide_plan)].secs = Ms(nimg, 1000)
    /\ remaining - t_accum < Ms(nimg, 1000)

\* C5: the muxed file lasts exactly as long as the narration: the concatenated
\* video is never shorter than the audio, and the mux keeps the shorter.
C5_FinalEqualsNarration ==
    (tmp_final = "complete" \/ dest = "new") =>
        /\ video_frames * (3000 \div FPS) >= audio_ms * 3
        /\ final_dur = audio_ms * 3

\* C6: for every mode, frame count F >= 1 and frame 0..F-1, the rounded pan
\* coordinates lie in [0, span_x] x [0, span_y], the spans being >= 0.
C6_PanWithinSpan ==
    pc = "zoompan" =>
        /\ kb.frames >= 1 /\ kb.on \in 0..(kb.frames - 1)
        /\ kb.mode \in 0..4
        /\ kb.xspan >= 0 /\ kb.yspan >= 0
        /\ 0 <= kb.x /\ kb.x <= kb.xspan
        /\ 0 <= kb.y /\ kb.y <= kb.yspan

\* C6 witness: a frame strictly inside a clip, panning strictly inside the span
C6_Witness ==
    /\ pc = "zoompan"
    /\ kb.mode = 3
    /\ 0 < kb.on /\ kb.on < kb.frames - 1
    /\ 0 < kb.x /\ kb.x < kb.xspan
    /\ 0 < kb.y /\ kb.y < kb.yspan

\* C7: when an external process step (intro, slide, concat, mux) exits
\* nonzero, the error reaches the caller at that step: no later step was
\* started, no step was started twice, nothing is left running, and out_mp4
\* holds what it held before the run.
C7_FailureAborts ==
    failed_at \in {"intro", "slide", "concat", "mux"} =>
        /\ pc = "raised"
        /\ running = {}
        /\ dest = dest0
        /\ Len(started) = Len(completed) + 1
        /\ started[Len(started)].step = failed_at
        /\ IsPrefix(completed, started)
        /\ \A a, b \in 1..Len(started) : a # b => started[a] # started[b]

\* C7 witness: a slide encode failed after earlier clips succeeded, over an
\* existing output file
C7_Witness ==
    /\ failed_at = "slide"
    /\ pc = "raised"
    /\ Len(completed) >= 3
    /\ dest0 = "old" /\ dest = "old"

\* C8: when a file exists at out_mp4, the destination holds at every moment
\* either the complete previous file or the complete new one.
C8_AtomicPublish ==
    dest0 = "old" => dest \in {"old", "new"}

\* C9: the steps run in the order title card, intro, slides by plan index,
\* concat, mux, publish; a step starts only after the one before it completed;
\* at most one external process runs; the concat list names the intro clip
\* and then the slide clips in plan order.
C9_StrictOrder ==
    /\ IsPrefix(completed, started)
    /\ Len(started) <= Len(completed) + 1
    /\ IsPrefix(started,
                IF PlanDone THEN ExpectedOrder(Len(slide_plan)) ELSE <<Ev("title", 0)>>)
    /\ Cardinality(running) <= 1
    /\ running # {} =>
          /\ running = {started[Len(started)]}
          /\ Len(started) = Len(completed) + 1
    /\ concat_list # <<>> =>
          /\ concat_list = [k \in 1..(Len(slide_plan) + 1) |-> k - 1]
          /\ Len(clips) = Len(slide_plan) + 1
          /\ clips[1].img = title_bg_png
          /\ \A k \in 1..Len(slide_plan) :
                /\ clips[k + 1].name = k
                /\ clips[k + 1].img = slide_plan[k].img
                /\ clips[k + 1].ms = FormatMs(nimg, slide_plan[k].secs)

\* C9 witness: a run of at least three slides that was published
C9_Witness ==
    /\ pc = "done"
    /\ Len(concat_list) >= 4
    /\ Len(completed) = Len(slide_plan) + 5

\* C10: the slide at zero-based plan index k is rendered with mode k mod 5
\* (_make_slide_clip maps any integer mode into 0..4), so consecutive slides
\* differ in mode and a plan of at most 5 slides uses pairwise distinct modes.
C10_ModeCycle ==
    /\ \A k \in 1..Len(Rendered) : Rendered[k].mode = (k - 1) % 5
    /\ \A k \in 1..(Len(Rendered) - 1) : Rendered[k].mode # Rendered[k + 1].mode
    /\ Len(Rendered) <= 5 =>
          \A a, b \in 1..Len(Rendered) : a # b => Rendered[a].mode # Rendered[b].mode
    /\ \A m \in (0 - MaxMode)..MaxMode : SlideMode(m) \in 0..4

\* C10 witness: a plan longer than five slides, rendered to the end, whose
\* sixth slide is back at mode 0
C10_Witness ==
    /\ pc = "done"
    /\ Len(Rendered) >= 6
    /\ Rendered[6].mode = 0
    /\ Rendered[5].mode = 4

\* a string of the form <whitespace><digits>x<digits><whitespace>: its digits
\* are s[lo..p-1] and s[p+1..hi], the delimiter is s[p]
WellFormedAt(s, lo, p, hi) ==
    /\ lo < p /\ p < hi
    /\ s[p] = "x"
    /\ \A k \in 1..Len(s) :
          /\ k < lo \/ k > hi => s[k] = " "
          /\ (lo <= k /\ k <= hi /\ k # p) => s[k] \in Digits

RECURSIVE Pow10(_)
Pow10(n) == IF n = 0 THEN 1 ELSE 10 * Pow10(n - 1)

\* the number the decimal digits s[lo..hi] write, by place value
RECURSIVE PlaceValue(_, _, _)
PlaceValue(s, lo, hi) ==
    IF lo > hi THEN 0
    ELSE DigitVal(s[lo]) * Pow10(hi - lo) + PlaceValue(s, lo + 1, hi)

C12_PositiveResolution ==
    pc = "parsed" => (out_wh[1] > 0 /\ out_wh[2] > 0)

CeilDiv(a, b) == (a + b - 1) \div b

\* C13: the plan entry at zero-based position k, the tail included, shows
\* image k mod N of the supplied list (the title card when the list is empty),
\* and the greedy loop emits an entry exactly while accumulated + D < R - 0.25;
\* for N = 3, T = 40, I = 8: D = 32/3, two greedy entries and a tail, 32 s of slides.
C13_CycleAndGreedy ==
    LET R == Max(Ms(nimg, 100), total_sec - intro_seconds)
        D == Max(Ms(nimg, 4000), Min(Ms(nimg, 12000), R \div Max(1, nimg)))
        greedy == IF PlanDone THEN Len(slide_plan) - 1 ELSE Len(slide_plan)
    IN  (pc = "plan" \/ PlanDone) =>
            /\ \A k \in 1..Len(slide_plan) :
                  slide_plan[k].img =
                     IF nimg = 0 THEN title_bg_png ELSE ((k - 1) % nimg) + 1
            /\ \A j \in 0..(greedy - 1) : j * D + D < R - Ms(nimg, 250)
            /\ PlanDone => greedy * D + D >= R - Ms(nimg, 250)
            /\ (PlanDone /\ nimg = 3 /\ audio_ms = 40000 /\ intro_cfg = 8) =>
                  /\ 3 * D = Ms(nimg, 32000)
                  /\ Len(slide_plan) = 3
                  /\ SumSecs(slide_plan) = Ms(nimg, 32000)

\* C13 witness: a plan longer than the image list, whose third entry is back
\* at the first image
C13_Witness ==
    /\ PlanDone
    /\ nimg = 2
    /\ Len(slide_plan) >= 5
    /\ slide_plan[3].img = 1 /\ slide_plan[4].img = 2

\* C14: in a clip of F >= 2 frames each mode's pan starts on its first anchor
\* at frame 0, ends on its second anchor at frame F-1 and is monotone from one
\* frame to the next: mode 0 x 0 -> span_x with y at round(span_y/2); mode 1
\* x 0 -> span_x, y span_y -> 0; mode 2 x 0 -> span_x, y 0 -> span_y; mode 3
\* x span_x -> 0, y span_y -> 0; mode 4 x span_x -> 0, y 0 -> span_y; the zoom
\* is the same constant in every frame.
C14_PanAnchors ==
    [][(pc = "zoompan" /\ kb.frames >= 2) =>
          LET m == kb.mode
              right == m \in {0, 1, 2}
              up == m \in {1, 3}
              down == m \in {2, 4}
              ymid == (kb.yspan + 1) \div 2
          IN  /\ kb.z = kb.zoom /\ kb'.z = kb.z
              /\ kb'.on = kb.on + 1
              /\ kb.on = 0 =>
                    /\ kb.x = IF right THEN 0 ELSE kb.xspan
                    /\ kb.y = IF m = 0 THEN ymid ELSE IF up THEN kb.yspan ELSE 0
              /\ kb'.on = kb.frames - 1 =>
                    /\ kb'.x = IF right THEN kb.xspan ELSE 0
                    /\ kb'.y = IF m = 0 THEN ymid ELSE IF up THEN 0 ELSE kb.yspan
              /\ IF right THEN kb'.x >= kb.x ELSE kb'.x <= kb.x
              /\ m = 0 => (kb.y = ymid /\ kb'.y = ymid)
              /\ up => kb'.y <= kb.y
              /\ down => kb'.y >= kb.y
      ]_vars

\* C14 witness: the last frame of an up-right pan of three frames or more, at
\* the right edge and the top
C14_Witness ==
    /\ pc = "zoompan"
    /\ kb.mode = 1
    /\ kb.frames >= 3 /\ kb.on = kb.frames - 1
    /\ kb.xspan > 0 /\ kb.x = kb.xspan
    /\ kb.yspan > 0 /\ kb.y = 0

\* C15: the planning loop terminates, the plan it yields is never empty, and
\* it emits at most ceil(R / min_per_slide) entries before the tail.
C15_PlanTerminates ==
    /\ [](LET R == Max(Ms(nimg, 100), total_sec - intro_seconds)
              greedy == IF PlanDone THEN Len(slide_plan) - 1 ELSE Len(slide_plan)
          IN  /\ (pc = "plan" \/ PlanDone) => greedy <= CeilDiv(R, Ms(nimg, 4000))
              /\ PlanDone => Len(slide_plan) >= 1)
    /\ (pc = "plan") ~> PlanDone

\* C15 witness: the loop ran four times or more and the plan was completed
C15_Witness ==
    /\ PlanDone
    /\ Len(slide_plan) >= 5
    /\ i = Len(slide_plan) - 1

\* C16: the tail lasts at most D + 0.25 s, so at most max_per_slide + 0.25 s,
\* and when the greedy loop emitted an entry the leftover R - accumulated is
\* more than 0.25 s.
C16_TailBound ==
    PlanDone =>
        LET R == Max(Ms(nimg, 100), total_sec - intro_seconds)
            D == Max(Ms(nimg, 4000), Min(Ms(nimg, 12000), R \div Max(1, nimg)))
            acc == SumSecs(Front(slide_plan))
            last == slide_plan[Len(slide_plan)]
        IN  /\ last.secs <= D + Ms(nimg, 250)
            /\ last.secs <= Ms(nimg, 12250)
            /\ Len(slide_plan) >= 2 => R - acc > Ms(nimg, 250)

\* C16 witness: after a greedy entry, a tail longer than max_per_slide
C16_Witness ==
    /\ PlanDone
    /\ Len(slide_plan) >= 2
    /\ slide_plan[Len(slide_plan)].secs > Ms(nimg, 12000)

====
